---- MODULE Spec2Model ----
(***************************************************************************)
(* BodyTrackingDataChecker (src/main.py): json_to_ndarray reads a          *)
(* line-delimited JSON file of body-tracking keypoints into four parallel  *)
(* arrays, get_scatter_scale derives one cubic axis range from them and    *)
(* the __main__ block animates the frames on a 3-D scatter plot.           *)
(*                                                                         *)
(* Numbers are binary floating-point values.  They are written here as    *)
(* integers counted in quarters (4 stands for 1.0, 20 for 5.0), and every  *)
(* sum and difference is rounded to Precision significant bits, ties to    *)
(* even, as IEEE arithmetic does with 53 bits.                             *)
(***************************************************************************)
EXTENDS Integers, Sequences, FiniteSets

VARIABLES
    total,              \* number of lines the input file holds
    file,               \* the lines json_to_ndarray has read so far
    fileOpen,           \* jfs: TRUE between open() and the exit of the with block
    pc,                 \* position of the script
    err,                \* the exception that ended the run, "none" otherwise
    x, y, z, labels,    \* the accumulators, then the returned arrays
    x_per_frame, y_per_frame, z_per_frame, label_per_frame,
    keypoints,          \* data_obj["Bones"] of the line being processed
    kidx,               \* keypoints already visited by the inner for loop
    lim,                \* result of get_scatter_scale
    print_keypoint_name,\* args.print_keypoint_name
    axlim,              \* limits of the 3-D axes: [x, y, z] display axes
    scat,               \* points of the scatter currently on the axes
    texts,              \* text annotations currently on the axes
    calls,              \* number of calls of return_animation so far
    frame               \* argument i of the latest call, -1 before the first

vars == <<total, file, fileOpen, pc, err, x, y, z, labels,
          x_per_frame, y_per_frame, z_per_frame, label_per_frame,
          keypoints, kidx, lim, print_keypoint_name, axlim, scat, texts,
          calls, frame>>

(***************************************************************************)
(* Bounds of the model.                                                    *)
(***************************************************************************)
MaxLines == 3       \* lines in the input file
MaxK == 2           \* keypoints in one line
Precision == 3      \* significant bits of a floating-point value

(***************************************************************************)
(* Floating-point arithmetic.                                              *)
(***************************************************************************)
Abs(n) == IF n < 0 THEN -n ELSE n

RECURSIVE Pow2(_)
Pow2(n) == IF n = 0 THEN 1 ELSE 2 * Pow2(n - 1)

\* spacing of the representable values around magnitude m
RECURSIVE Quantum(_)
Quantum(m) == IF m < Pow2(Precision) THEN 1 ELSE 2 * Quantum(m \div 2)

\* round to nearest representable value, ties to the even significand
Rnd(n) ==
    LET m == Abs(n)
        q == Quantum(m)
        lo == (m \div q) * q
        rem == m - lo
        up == \/ 2 * rem > q
              \/ 2 * rem = q /\ (lo \div q) % 2 = 1
        r == IF up THEN lo + q ELSE lo
    IN  IF n < 0 THEN -r ELSE r

FAdd(a, b) == Rnd(a + b)
FSub(a, b) == Rnd(a - b)
\* multiplication by 0.5 only lowers the exponent: exact (the values of the
\* model are even numbers of quarters, and so are their rounded sums)
Half(a) == a \div 2

(***************************************************************************)
(* The input file.  A line is what json.loads makes of it: an object with  *)
(* a Bones list ("object"), text that is no JSON ("notjson"), an object    *)
(* without a usable Bones field ("nobones"), or a line on which the parser *)
(* signals end of input ("eof").  A keypoint carries its position, its     *)
(* name and a defect: the field that is missing or unusable, or            *)
(* "NameNotString" for a Name that is a number (Name then holds its text). *)
(* The keypoints of one line are distinct joints.  The file holds the     *)
(* numbers as the tracker printed its floating-point values, so reading    *)
(* them back is exact.                                                     *)
(***************************************************************************)
Kp(px, py, pz, name, defect) ==
    [x |-> px, y |-> py, z |-> pz, Name |-> name, defect |-> defect]

GoodKeypoints ==
    { Kp(0, 0, 0, "A", "none"),
      Kp(8, 4, 0, "B", "none"),
      Kp(8, 14, 2, "C", "none") }

Defects == {"Position", "x", "y", "z", "Name"}

BadKeypoints ==
    { Kp(8, 4, 0, "B", d) : d \in Defects } \cup { Kp(8, 4, 0, "7", "NameNotString") }

RECURSIVE SeqsUpTo(_, _)
SeqsUpTo(S, n) ==
    IF n = 0 THEN { <<>> }
    ELSE LET shorter == SeqsUpTo(S, n - 1)
         IN  shorter \cup { Append(s, e) : s \in { t \in shorter : Len(t) = n - 1 }, e \in S }

ObjectLine(bones) == [kind |-> "object", Bones |-> bones]

Distinct(s) == \A i, j \in 1..Len(s) : s[i] = s[j] => i = j

GoodLines ==
    { ObjectLine(b) : b \in { s \in SeqsUpTo(GoodKeypoints, MaxK) : Distinct(s) } }

DefectLines ==
    { ObjectLine(pre \o <<k>>) :
        pre \in { <<>>, << Kp(0, 0, 0, "A", "none") >> }, k \in BadKeypoints }

OtherLines == { [kind |-> k, Bones |-> <<>>] : k \in {"notjson", "nobones", "eof"} }

Lines == GoodLines \cup DefectLines \cup OtherLines

PrintArgs == {"True", "False"}

NoLim == << <<0, 0>>, <<0, 0>>, <<0, 0>> >>
DefaultLim == [x |-> <<0, 4>>, y |-> <<0, 4>>, z |-> <<0, 4>>]

Init ==
    /\ total \in 0..MaxLines
    /\ print_keypoint_name \in PrintArgs
    /\ file = <<>>
    /\ fileOpen = FALSE
    /\ pc = "start"
    /\ err = "none"
    /\ x = <<>> /\ y = <<>> /\ z = <<>> /\ labels = <<>>
    /\ x_per_frame = <<>> /\ y_per_frame = <<>>
    /\ z_per_frame = <<>> /\ label_per_frame = <<>>
    /\ keypoints = <<>>
    /\ kidx = 0
    /\ lim = NoLim
    /\ axlim = DefaultLim
    /\ scat = <<>>
    /\ texts = <<>>
    /\ calls = 0
    /\ frame = -1

loaderVars == <<x, y, z, labels, x_per_frame, y_per_frame, z_per_frame,
                label_per_frame, keypoints, kidx>>
plotVars == <<lim, axlim, scat, texts, calls, frame>>

(***************************************************************************)
(* json_to_ndarray                                                         *)
(***************************************************************************)
\* lines 28-33: the accumulators are created and the file is opened
Open ==
    /\ pc = "start"
    /\ fileOpen' = TRUE
    /\ pc' = "loop"
    /\ UNCHANGED <<total, file, err, print_keypoint_name, loaderVars, plotVars>>

\* variant: the file stays open when an exception leaves the function
Raise_NoClose(e) ==
    /\ pc' = "raised"
    /\ err' = e
    /\ UNCHANGED fileOpen

\* variant: a line that fails is skipped and the loop goes on
Raise_Skip(e) ==
    /\ pc' = "loop"
    /\ UNCHANGED <<fileOpen, err>>

\* an exception leaves the with block (the file is closed) and the function
Raise(e) ==
    /\ fileOpen' = FALSE
    /\ pc' = "raised"
    /\ err' = e

\* variant: continue instead of break
EarlyStop_Continue ==
    /\ pc' = "loop"
    /\ UNCHANGED <<fileOpen, err>>

\* lines 48-49: except EOFError: break, which leaves the loop and the with block
EarlyStop ==
    /\ fileOpen' = FALSE
    /\ pc' = "return"
    /\ UNCHANGED err

\* lines 34-42: next line, fresh per-frame lists, json.loads, data_obj["Bones"]
ParseLine ==
    /\ pc = "loop"
    /\ Len(file) < total
    /\ \E line \in Lines :
        /\ file' = Append(file, line)
        /\ x_per_frame' = <<>> /\ y_per_frame' = <<>>
        /\ z_per_frame' = <<>> /\ label_per_frame' = <<>>
        /\ kidx' = 0
        /\ \/ /\ line.kind = "object"
              /\ keypoints' = line.Bones
              /\ pc' = "keypoints"
              /\ UNCHANGED <<fileOpen, err>>
           \/ /\ line.kind = "notjson"
              /\ Raise("JSONDecodeError")
              /\ UNCHANGED keypoints
           \/ /\ line.kind = "nobones"
              /\ Raise("KeyError")
              /\ UNCHANGED keypoints
           \/ /\ line.kind = "eof"
              /\ EarlyStop
              /\ UNCHANGED keypoints
    /\ UNCHANGED <<total, print_keypoint_name, x, y, z, labels, plotVars>>

\* the appends of lines 44-47 that run before the keypoint's defect raises
Reaches(defect, field) ==
    CASE field = "x" -> defect \notin {"Position", "x"}
      [] field = "y" -> defect \notin {"Position", "x", "y"}
      [] field = "z" -> defect \notin {"Position", "x", "y", "z"}
      [] field = "Name" -> defect \notin {"Position", "x", "y", "z", "Name"}

\* variant: insert at the front
PrependIf(s, cond, v) == IF cond THEN <<v>> \o s ELSE s

AppendIf(s, cond, v) == IF cond THEN Append(s, v) ELSE s

\* lines 43-47: one pass of the inner for loop
AppendKeypoint ==
    /\ pc = "keypoints"
    /\ kidx < Len(keypoints)
    /\ LET keypoint == keypoints[kidx + 1]
           d == keypoint.defect
       IN  /\ x_per_frame' = AppendIf(x_per_frame, Reaches(d, "x"), keypoint.x)
           /\ y_per_frame' = AppendIf(y_per_frame, Reaches(d, "y"), keypoint.y)
           /\ z_per_frame' = AppendIf(z_per_frame, Reaches(d, "z"), keypoint.z)
           /\ label_per_frame' =
                  AppendIf(label_per_frame, Reaches(d, "Name"), keypoint.Name)
           /\ IF Reaches(d, "Name")
              THEN /\ kidx' = kidx + 1
                   /\ UNCHANGED <<fileOpen, pc, err>>
              ELSE /\ Raise("KeyError")
                   /\ UNCHANGED kidx
    /\ UNCHANGED <<total, file, print_keypoint_name, x, y, z, labels, keypoints, plotVars>>

\* variant: the labels of the frame are not kept
AppendFrame_NoLabels ==
    /\ pc = "keypoints"
    /\ kidx = Len(keypoints)
    /\ x' = Append(x, x_per_frame)
    /\ y' = Append(y, y_per_frame)
    /\ z' = Append(z, z_per_frame)
    /\ pc' = "loop"
    /\ UNCHANGED <<total, file, fileOpen, err, print_keypoint_name, labels,
                   x_per_frame, y_per_frame, z_per_frame, label_per_frame,
                   keypoints, kidx, plotVars>>

\* lines 51-54: the line is fully processed
AppendFrame ==
    /\ pc = "keypoints"
    /\ kidx = Len(keypoints)
    /\ x' = Append(x, x_per_frame)
    /\ y' = Append(y, y_per_frame)
    /\ z' = Append(z, z_per_frame)
    /\ labels' = Append(labels, label_per_frame)
    /\ pc' = "loop"
    /\ UNCHANGED <<total, file, fileOpen, err, print_keypoint_name,
                   x_per_frame, y_per_frame, z_per_frame, label_per_frame,
                   keypoints, kidx, plotVars>>

\* line 34 at the end of the file: the for loop and the with block end
Exhausted ==
    /\ pc = "loop"
    /\ Len(file) = total
    /\ fileOpen' = FALSE
    /\ pc' = "return"
    /\ UNCHANGED <<total, file, err, print_keypoint_name, loaderVars, plotVars>>

\* np.array builds a 2-D array from lists of one common length
IsRect(a) == \A i, j \in 1..Len(a) : Len(a[i]) = Len(a[j])

\* What np.array does with lists of differing lengths: NumPy 1.24 and later
\* raise ValueError, earlier versions return an array of list objects.
RaggedOutcomes == {"ValueError", "object"}

\* lines 56-61
Return ==
    /\ pc = "return"
    /\ \/ /\ IsRect(x)
          /\ pc' = "loaded"
          /\ UNCHANGED err
       \/ /\ ~IsRect(x)
          /\ \E o \in RaggedOutcomes :
                IF o = "object"
                THEN pc' = "loaded" /\ UNCHANGED err
                ELSE pc' = "raised" /\ err' = o
    /\ UNCHANGED <<total, file, fileOpen, print_keypoint_name, loaderVars, plotVars>>

(***************************************************************************)
(* get_scatter_scale                                                       *)
(***************************************************************************)
RECURSIVE Flatten(_)
Flatten(a) == IF a = <<>> THEN <<>> ELSE Head(a) \o Flatten(Tail(a))

RECURSIVE ReduceMax(_)
ReduceMax(s) ==
    IF Len(s) = 1 THEN s[1]
    ELSE LET m == ReduceMax(Tail(s)) IN IF s[1] > m THEN s[1] ELSE m

RECURSIVE ReduceMin(_)
ReduceMin(s) ==
    IF Len(s) = 1 THEN s[1]
    ELSE LET m == ReduceMin(Tail(s)) IN IF s[1] < m THEN s[1] ELSE m

\* variant: the maximum of the first frame only
amax_first_frame(a) == ReduceMax(a[1])

\* np.amax and np.amin without an axis argument reduce the whole array
amax(a) == ReduceMax(Flatten(a))
amin(a) == ReduceMin(Flatten(a))

\* variant: the smallest span instead of the largest
max_range_smallest(ax, ay, az) ==
    Half(ReduceMin(<< FSub(amax(ax), amin(ax)),
                      FSub(amax(ay), amin(ay)),
                      FSub(amax(az), amin(az)) >>))

\* variant: a zero range is widened to a small positive one
max_range_epsilon(ax, ay, az) ==
    LET r == Half(ReduceMax(<< FSub(amax(ax), amin(ax)),
                               FSub(amax(ay), amin(ay)),
                               FSub(amax(az), amin(az)) >>))
    IN  IF r = 0 THEN 1 ELSE r

\* line 72
max_range(ax, ay, az) ==
    Half(ReduceMax(<< FSub(amax(ax), amin(ax)),
                      FSub(amax(ay), amin(ay)),
                      FSub(amax(az), amin(az)) >>))

\* lines 74-76
mid(a) == Half(FAdd(amax(a), amin(a)))

\* lines 78-82
get_scatter_scale(ax, ay, az) ==
    LET r == max_range(ax, ay, az)
    IN  << << FSub(mid(ax), r), FAdd(mid(ax), r) >>,
           << FSub(mid(ay), r), FAdd(mid(ay), r) >>,
           << FSub(mid(az), r), FAdd(mid(az), r) >> >>

\* np.amax raises ValueError on an array without elements and the
\* subtraction raises TypeError on the lists an object array holds
ScaleError(a) ==
    IF ~IsRect(a) THEN "TypeError"
    ELSE IF Flatten(a) = <<>> THEN "ValueError"
    ELSE "none"

(***************************************************************************)
(* __main__                                                                *)
(***************************************************************************)
\* line 94
Scale ==
    /\ pc = "loaded"
    /\ IF ScaleError(x) = "none"
       THEN /\ lim' = get_scatter_scale(x, y, z)
            /\ pc' = "scaled"
            /\ UNCHANGED err
       ELSE /\ pc' = "failed"
            /\ err' = ScaleError(x)
            /\ UNCHANGED lim
    /\ UNCHANGED <<total, file, fileOpen, print_keypoint_name, loaderVars,
                   axlim, scat, texts, calls, frame>>

\* set_xlim, set_ylim, set_zlim: the axes take the pair given, except that a
\* pair of equal bounds is widened (by a twentieth of their magnitude; by one
\* unit here) so that the axis keeps a positive length
set_lim(pair) == IF pair[1] = pair[2] THEN << pair[1] - 1, pair[2] + 1 >> ELSE pair

\* lines 103-105: display y shows stored z, display z shows stored y
SwappedLimits(l) == [x |-> set_lim(l[1]), y |-> set_lim(l[3]), z |-> set_lim(l[2])]

\* lines 96-106
SetLimits ==
    /\ pc = "scaled"
    /\ axlim' = SwappedLimits(lim)
    /\ pc' = "animate"
    /\ UNCHANGED <<total, file, fileOpen, err, print_keypoint_name, loaderVars,
                   lim, scat, texts, calls, frame>>

Extent(s) == << ReduceMin(s), ReduceMax(s) >>

\* line 115: the scatter of frame i; xs, ys, zs are the display coordinates
Scatter(i) == [j \in 1..Len(x[i + 1]) |-> << x[i + 1][j], z[i + 1][j], y[i + 1][j] >>]

\* lines 116-118
Texts(i) ==
    IF print_keypoint_name = "True"
    THEN [j \in 1..Len(labels[i + 1]) |->
            [at |-> << x[i + 1][j], z[i + 1][j], y[i + 1][j] >>, s |-> labels[i + 1][j]]]
    ELSE <<>>

\* variant: the previous drawing is kept
cla_keep(artists) == artists

\* line 114: Axes.cla() removes every artist from the axes
cla(artists) == <<>>

\* Axes.cla() also puts the limits back on autoscale; the scatter call of
\* line 115 then scales each display axis to the data of the frame.
LimitsAfterDraw(i) ==
    [x |-> set_lim(Extent(x[i + 1])),
     y |-> set_lim(Extent(z[i + 1])),
     z |-> set_lim(Extent(y[i + 1]))]

\* lines 108-118: return_animation(i)
return_animation(i) ==
    /\ scat' = cla(scat) \o Scatter(i)
    /\ texts' = cla(texts) \o Texts(i)
    /\ axlim' = LimitsAfterDraw(i)
    /\ frame' = i

\* lines 120-123: FuncAnimation draws frame 0 when the save starts and then
\* the frames 0 .. len(x) - 1 in order
NextFrame == IF calls = 0 THEN 0 ELSE calls - 1

DrawFrame ==
    /\ pc = "animate"
    /\ calls < Len(x) + 1
    /\ return_animation(NextFrame)
    /\ calls' = calls + 1
    /\ UNCHANGED <<total, file, fileOpen, pc, err, print_keypoint_name, loaderVars, lim>>

Finish ==
    /\ pc = "animate"
    /\ calls = Len(x) + 1
    /\ pc' = "done"
    /\ UNCHANGED <<total, file, fileOpen, err, print_keypoint_name, loaderVars, plotVars>>

Next ==
    \/ Open
    \/ ParseLine
    \/ AppendKeypoint
    \/ AppendFrame
    \/ Exhausted
    \/ Return
    \/ Scale
    \/ SetLimits
    \/ DrawFrame
    \/ Finish

Spec == Init /\ [][Next]_vars

TypeOK ==
    /\ pc \in {"start", "loop", "keypoints", "return", "loaded", "scaled",
                "animate", "done", "raised", "failed"}
    /\ Len(file) <= total

(***************************************************************************)
(* Vocabulary of the properties.                                           *)
(***************************************************************************)
AfterLoad == pc \in {"return", "loaded", "scaled", "animate", "done", "failed", "raised"}
\* get_scatter_scale has just returned lim
Scaled == pc = "scaled"

\* the loop was left by the EOFError handler on the latest line read
EarlyStopped == Len(file) >= 1 /\ file[Len(file)].kind = "eof"

FrameCounts(n) == Len(x) = n /\ Len(y) = n /\ Len(z) = n /\ Len(labels) = n

\* a line that breaks the schema in any way
Malformed(line) ==
    \/ line.kind \in {"notjson", "nobones"}
    \/ \E j \in 1..Len(line.Bones) : line.Bones[j].defect # "none"

\* a line on which reading a field fails
Unreadable(line) ==
    \/ line.kind \in {"notjson", "nobones"}
    \/ \E j \in 1..Len(line.Bones) : line.Bones[j].defect \in Defects

Axis(k) == << x, y, z >>[k]
Values(a) == UNION { { a[i][j] : j \in 1..Len(a[i]) } : i \in 1..Len(a) }
Greatest(S) == CHOOSE v \in S : \A w \in S : w <= v
Least(S) == CHOOSE v \in S : \A w \in S : v <= w
GlobalMax(a) == LET S == Values(a) IN Greatest(S)
GlobalMin(a) == LET S == Values(a) IN Least(S)
Larger(a, b) == IF a > b THEN a ELSE b

\* one unit in the last place of a value of magnitude v
Ulp(v) == Quantum(Abs(v))

\* the largest of the three axis spans, and the midpoint sum of an axis
LargestSpan ==
    LET spans == { Rnd(GlobalMax(Axis(k)) - GlobalMin(Axis(k))) : k \in 1..3 }
    IN  Greatest(spans)
MidSum(k) == Rnd(GlobalMax(Axis(k)) + GlobalMin(Axis(k)))

\* the track of the end-to-end scenario: x from 0 to 2, y from 0 to 1, z at 0
ExampleExtrema ==
    /\ GlobalMin(x) = 0 /\ GlobalMax(x) = 8
    /\ GlobalMin(y) = 0 /\ GlobalMax(y) = 4
    /\ GlobalMin(z) = 0 /\ GlobalMax(z) = 0

ZeroSpan == \A k \in 1..3 : GlobalMax(Axis(k)) = GlobalMin(Axis(k))

\* the keypoints of the line that frame i (counted from 0) was read from
FrameBones(i) == file[i + 1].Bones

WellFormed ==
    /\ Len(file) = total
    /\ \A i \in 1..total : file[i] \in GoodLines
    /\ \A i, j \in 1..total : Len(file[i].Bones) = Len(file[j].Bones)

C2_RoundTrip ==
    (WellFormed /\ pc \notin {"loop", "keypoints", "return"}) =>
        /\ pc # "raised"
        /\ FrameCounts(total)
        /\ \A i \in 1..total :
              LET bones == file[i].Bones
              IN  /\ Len(x[i]) = Len(bones) /\ Len(y[i]) = Len(bones)
                  /\ Len(z[i]) = Len(bones) /\ Len(labels[i]) = Len(bones)
                  /\ \A j \in 1..Len(bones) :
                        /\ x[i][j] = bones[j].x
                        /\ y[i][j] = bones[j].y
                        /\ z[i][j] = bones[j].z
                        /\ labels[i][j] = bones[j].Name

C2_Witness ==
    /\ pc = "loaded" /\ WellFormed
    /\ total = 2 /\ Len(x[1]) = 2
    /\ labels[1] = <<"C", "B">> /\ labels[2] = <<"A", "C">>

(***************************************************************************)
(* C3: after the frame callback has drawn a frame, the three axis limits   *)
(* still are the pairs of the bounding cube set before the animation.      *)
(***************************************************************************)
C3_LimitsStayFixed ==
    calls >= 1 =>
        /\ axlim.x = set_lim(lim[1])
        /\ axlim.y = set_lim(lim[3])
        /\ axlim.z = set_lim(lim[2])

(***************************************************************************)
(* C4: a malformed line (no JSON, a missing field, a wrong type) makes     *)
(* json_to_ndarray raise: it is the last line read, it adds no frame and   *)
(* the script goes no further.                                             *)
(***************************************************************************)
C4_MalformedAborts_AsClaimed ==
    \A i \in 1..Len(file) :
        Malformed(file[i]) =>
            /\ i = Len(file)
            /\ pc \in {"keypoints", "raised"}
            /\ FrameCounts(i - 1)

\* C4 as amended: the same, for a line on which reading a field fails
C4_UnreadableAborts ==
    \A i \in 1..Len(file) :
        Unreadable(file[i]) =>
            /\ i = Len(file)
            /\ pc \in {"keypoints", "raised"}
            /\ FrameCounts(i - 1)

C4_Witness ==
    /\ pc = "raised" /\ err = "KeyError"
    /\ Len(file) = 2 /\ Len(file) < total
    /\ Len(x) = 1
    /\ Len(x_per_frame) = 2 /\ Len(z_per_frame) = 1

(***************************************************************************)
(* C5: every returned pair [min, max] has min at or below the axis's       *)
(* global minimum and max at or above its global maximum, and max - min    *)
(* is the same on the three axes.                                          *)
(***************************************************************************)
Width(k) == lim[k][2] - lim[k][1]

C5_Containment_AsClaimed ==
    Scaled =>
        /\ \A k \in 1..3 :
              /\ lim[k][1] <= GlobalMin(Axis(k))
              /\ lim[k][2] >= GlobalMax(Axis(k))
        /\ \A k, l \in 1..3 : Width(k) = Width(l)

\* the rounding allowance of an axis: one unit in the last place of its
\* extremum of larger magnitude, and of its bound of larger magnitude
ExtremumUlp(k) == Ulp(Larger(Abs(GlobalMin(Axis(k))), Abs(GlobalMax(Axis(k)))))
BoundUlp(k) == Ulp(Larger(Abs(lim[k][1]), Abs(lim[k][2])))

\* no sum or difference of the computation is rounded
NoRounding ==
    LET r == LargestSpan \div 2
    IN  \A k \in 1..3 :
          LET hi == GlobalMax(Axis(k))
              lo == GlobalMin(Axis(k))
          IN  /\ Rnd(hi + lo) = hi + lo
              /\ Rnd(hi - lo) = hi - lo
              /\ Rnd((hi + lo) \div 2 - r) = (hi + lo) \div 2 - r
              /\ Rnd((hi + lo) \div 2 + r) = (hi + lo) \div 2 + r

\* C5 as amended: containment and equal width hold up to one rounding unit,
\* and exactly when nothing is rounded
C5_Containment ==
    Scaled =>
        /\ \A k \in 1..3 :
              /\ lim[k][1] <= GlobalMin(Axis(k)) + ExtremumUlp(k)
              /\ lim[k][2] >= GlobalMax(Axis(k)) - ExtremumUlp(k)
        /\ \A k, l \in 1..3 : Abs(Width(k) - Width(l)) <= BoundUlp(k) + BoundUlp(l)
        /\ NoRounding =>
              /\ \A k \in 1..3 :
                    /\ lim[k][1] <= GlobalMin(Axis(k))
                    /\ lim[k][2] >= GlobalMax(Axis(k))
              /\ \A k, l \in 1..3 : Width(k) = Width(l)

C5_Witness ==
    /\ Scaled
    /\ Len(x) = 2
    /\ GlobalMax(y) - GlobalMin(y) > GlobalMax(x) - GlobalMin(x)
    /\ lim[2][2] < GlobalMax(y)

(***************************************************************************)
(* C6: each returned pair is [mid - max_range, mid + max_range] with mid   *)
(* half the sum of the axis's global extrema and max_range half the        *)
(* largest global span, so it is centred on the axis's midpoint; the       *)
(* scenario with x from 0 to 2, y from 0 to 1 and z at 0 gives x = [0, 2], *)
(* y = [0, 1], z = [-1, 1].                                                *)
(***************************************************************************)
ScaleFormula ==
    LET r == LargestSpan \div 2
    IN  \A k \in 1..3 :
          LET m == MidSum(k) \div 2
          IN  /\ lim[k][1] = Rnd(m - r)
              /\ lim[k][2] = Rnd(m + r)
              /\ Abs(lim[k][1] + lim[k][2] - 2 * m) <= BoundUlp(k)

C6_Formula_AsClaimed ==
    Scaled =>
        /\ ScaleFormula
        /\ ExampleExtrema => lim = << <<0, 8>>, <<0, 4>>, <<-4, 4>> >>

\* C6 as amended: the scenario gives y = [-0.5, 1.5]
C6_Formula ==
    Scaled =>
        /\ ScaleFormula
        /\ ExampleExtrema => lim = << <<0, 8>>, <<-2, 6>>, <<-4, 4>> >>

C6_Witness ==
    /\ Scaled /\ ExampleExtrema
    /\ Len(x) = 2 /\ Len(x[1]) = 1
    /\ x[1] # x[2]

(***************************************************************************)
(* C7: the input file is closed once json_to_ndarray has left its with     *)
(* block, whether the lines ran out, the loop stopped early or a line      *)
(* raised.                                                                 *)
(***************************************************************************)
C7_FileClosed == AfterLoad => ~fileOpen

C7_Witness ==
    /\ pc = "raised" /\ err = "JSONDecodeError"
    /\ ~fileOpen
    /\ Len(x) = 2

(***************************************************************************)
(* C8: the four accumulators always have one common length and, frame by   *)
(* frame, inner lists of one common length; a fully processed line has     *)
(* added one frame to each and an interrupted line has added none.         *)
(***************************************************************************)
Interrupted ==
    \/ EarlyStopped
    \/ pc = "raised" /\ err \in {"JSONDecodeError", "KeyError"}

C8_Aligned ==
    /\ \E n \in 0..total : FrameCounts(n)
    /\ \A i \in 1..Len(x) :
          /\ Len(y[i]) = Len(x[i])
          /\ Len(z[i]) = Len(x[i])
          /\ Len(labels[i]) = Len(x[i])
    /\ pc = "loop" => FrameCounts(Len(file))
    /\ Interrupted => FrameCounts(Len(file) - 1)

C8_Witness ==
    /\ pc = "loaded"
    /\ EarlyStopped
    /\ Len(x) = 2 /\ Len(x[1]) = 2 /\ Len(x[2]) = 1

(***************************************************************************)
(* C9: when every axis has zero span, the returned pair of each axis is    *)
(* [v, v] with v the axis's one value, and no error is raised.             *)
(***************************************************************************)
C9_Degenerate ==
    (/\ pc \in {"scaled", "failed"}
     /\ IsRect(x) /\ Values(x) # {}
     /\ ZeroSpan) =>
        /\ pc # "failed"
        /\ \A k \in 1..3 : lim[k] = << GlobalMin(Axis(k)), GlobalMin(Axis(k)) >>

C9_Witness ==
    /\ Scaled /\ ZeroSpan
    /\ Len(x) = 2
    /\ lim = << <<8, 8>>, <<14, 14>>, <<2, 2>> >>

(***************************************************************************)
(* C10: the callback is called for frames 0 .. N-1 only; afterwards the    *)
(* axes show exactly the keypoints of that frame, keypoint j at (x, z, y), *)
(* with label j at the same place when the argument is "True" and no label *)
(* otherwise; the limits are set with the same exchange of y and z.        *)
(***************************************************************************)
Shown(k) == << k.x, k.z, k.y >>

C10_FrameDrawn ==
    /\ calls >= 1 =>
          LET bones == FrameBones(frame)
          IN  /\ frame \in 0..Len(x) - 1
              /\ Len(scat) = Len(bones)
              /\ \A j \in 1..Len(bones) : scat[j] = Shown(bones[j])
              /\ IF print_keypoint_name = "True"
                 THEN /\ Len(texts) = Len(bones)
                      /\ \A j \in 1..Len(bones) :
                            /\ texts[j].at = Shown(bones[j])
                            /\ texts[j].s = bones[j].Name
                 ELSE texts = <<>>
    /\ (pc = "animate" /\ calls = 0) =>
          /\ axlim.x = set_lim(lim[1])
          /\ axlim.y = set_lim(lim[3])
          /\ axlim.z = set_lim(lim[2])

C10_Witness ==
    /\ calls = 3 /\ frame = 1
    /\ print_keypoint_name = "True"
    /\ Len(texts) = 2
    /\ FrameBones(0) # FrameBones(1)

====
